---- MODULE Spec2Model ----
(***************************************************************************)
(* Model of xapp_rc_slice_dynamic.c: the xApp that builds one E2SM-RC      *)
(* "slice-level PRB quota" control request and sends it to every           *)
(* discovered E2 node.                                                     *)
(*                                                                         *)
(* The state is main()'s locals (nodes, rc_ctrl, the loop index), the      *)
(* locals of the builder while it runs (slice1_ratio, slice2_ratio, the    *)
(* message under construction), the process environment, and a record of   *)
(* what the external session layer was called with.                        *)
(*                                                                         *)
(* The program is taken as built with assertions enabled (no NDEBUG) and   *)
(* run as a Linux process: a failed assert aborts it, and a store through  *)
(* a null pointer, whose page is never mapped, kills it with SIGSEGV.      *)
(***************************************************************************)
EXTENDS Integers, Sequences, FiniteSets, TLC

VARIABLES
  pc,            \* position of main(): the next statement to run
  env,           \* the process environment: SLICE1_RATIO, SLICE2_RATIO
  nodes,         \* e2_node_arr_xapp_t nodes (the sequence of node ids)
  rc_ctrl,       \* rc_ctrl_req_data_t rc_ctrl of main()
  dst,           \* the message being built (dst of gen_rc_ctrl_msg_frmt_1_...)
  slice1_ratio,  \* int slice1_ratio of gen_rrm_policy_ratio_list
  slice2_ratio,  \* int slice2_ratio of gen_rrm_policy_ratio_list
  ratio_read,    \* the two ratios as they stood at line 212, before validation
  slice_i,       \* int i of the loop at line 237
  node_i,        \* size_t i of the loop at line 341
  sent,          \* the calls made to control_sm_xapp_api, in order
  rc_state,      \* "none" | "live" | "freed": the storage rc_ctrl.msg points to
  n_free,        \* number of calls of free_rc_ctrl_req_data
  n_msg_calls,   \* number of calls of gen_rc_ctrl_msg
  alloc_failed,  \* line of the calloc that returned NULL, 0 if none did
  exit_cause,    \* "none" | "assert" | "segv": how the process died, if it did
  exit_line,     \* line at which the process died, 0 if it did not
  stop_ans,      \* "none" | "false" | "true": last answer of try_stop_xapp_api
  n_usleep       \* number of usleep(1000) calls, counted up to MaxStopAttempts

vars == <<pc, env, nodes, rc_ctrl, dst, slice1_ratio, slice2_ratio, ratio_read,
          slice_i, node_i, sent, rc_state, n_free, n_msg_calls, alloc_failed,
          exit_cause, exit_line, stop_ans, n_usleep>>

----------------------------------------------------------------------------
(* Bounds of the model *)

\* at most this many E2 nodes are discovered
MaxNodes == 2

\* usleep calls are counted up to this number (the count saturates there: the
\* loop of line 355 itself has no bound)
MaxStopAttempts == 2

----------------------------------------------------------------------------
(* Program constants *)

\* int is 32 bits wide
INT_MAX == 2147483647

INT_MIN == (-INT_MAX) - 1

\* rc_ctrl_service_style_2_act_id_e
Slice_level_PRB_quotal_7_6_3_1 == 6

\* slice_level_PRB_quota_param_id_e
RRM_Policy_Ratio_List_8_4_3_6 == 1

RRM_Policy_Ratio_Group_8_4_3_6 == 2

RRM_Policy_8_4_3_6 == 3

RRM_Policy_Member_List_8_4_3_6 == 4

RRM_Policy_Member_8_4_3_6 == 5

PLMN_Identity_8_4_3_6 == 6

S_NSSAI_8_4_3_6 == 7

SST_8_4_3_6 == 8

SD_8_4_3_6 == 9

Min_PRB_Policy_Ratio_8_4_3_6 == 10

Max_PRB_Policy_Ratio_8_4_3_6 == 11

Dedicated_PRB_Policy_Ratio_8_4_3_6 == 12

\* int num_slice = 2
num_slice == 2

\* the value main() passes as the RAN function id (SM_RC_ID of rc_sm_id.h)
SM_RC_ID == 3

----------------------------------------------------------------------------
(* int arithmetic.  TLC's integers are themselves 32 bits wide, so the     *)
(* operators below never form a value outside INT_MIN..INT_MAX.            *)

\* a + b does not fit an int: signed overflow, undefined behaviour in C
AddOverflows(a, b) ==
  \/ (a > 0 /\ b > INT_MAX - a)
  \/ (a < 0 /\ b < INT_MIN - a)

\* a + b reduced modulo 2^32 into INT_MIN..INT_MAX (two's complement add)
WrapAdd(a, b) ==
  IF a > 0 /\ b > INT_MAX - a
    THEN ((a - INT_MAX) - 1) + ((b - INT_MAX) - 1)
    ELSE IF a < 0 /\ b < INT_MIN - a
      THEN ((a + INT_MAX) + 1) + ((b + INT_MAX) + 1)
      ELSE a + b

\* the mathematical a + b > 100, for a, b in INT_MIN..INT_MAX
ExactSumGt100(a, b) ==
  IF b >= 0 THEN a > 100 - b
  ELSE IF a <= 100 THEN FALSE
  ELSE a + b > 100

\* what `(slice1_ratio + slice2_ratio) > 100` can evaluate to.  When the
\* addition overflows the behaviour is undefined: a build that adds in 32-bit
\* registers compares the wrapped sum, one that adds in wider registers the
\* exact sum.
SumGt100Outcomes(a, b) ==
  IF AddOverflows(a, b)
    THEN {WrapAdd(a, b) > 100, ExactSumGt100(a, b)}
    ELSE {a + b > 100}

----------------------------------------------------------------------------
(* atoi: skips leading white space, takes an optional sign, then the       *)
(* longest run of decimal digits; the value is 0 when there is no digit.   *)
(* A string is a sequence of one-character strings.                        *)

Digits == {"0", "1", "2", "3", "4", "5", "6", "7", "8", "9"}

DigitVal(c) ==
  CASE c = "0" -> 0 [] c = "1" -> 1 [] c = "2" -> 2 [] c = "3" -> 3
    [] c = "4" -> 4 [] c = "5" -> 5 [] c = "6" -> 6 [] c = "7" -> 7
    [] c = "8" -> 8 [] c = "9" -> 9

\* isspace, for the white space that occurs in the model's strings
IsSpace(c) == c \in {" ", "\t"}

RECURSIVE SkipSpace(_, _)
SkipSpace(s, i) ==
  IF i <= Len(s) /\ IsSpace(s[i]) THEN SkipSpace(s, i + 1) ELSE i

\* the digits from position i on, accumulated as a negative number (so that
\* INT_MIN is reached without passing through 2^31)
RECURSIVE AccDigits(_, _, _)
AccDigits(s, i, acc) ==
  IF i <= Len(s) /\ s[i] \in Digits
    THEN AccDigits(s, i + 1, (acc * 10) - DigitVal(s[i]))
    ELSE acc

atoi(s) ==
  LET i0  == SkipSpace(s, 1)
      sgn == i0 <= Len(s) /\ s[i0] \in {"+", "-"}
      neg == sgn /\ s[i0] = "-"
      i1  == IF sgn THEN i0 + 1 ELSE i0
      acc == AccDigits(s, i1, 0)
  IN IF neg THEN acc ELSE -acc

\* getenv: NULL is [set |-> FALSE], a value is [set |-> TRUE, val |-> string]
NULL == [set |-> FALSE, val |-> <<>>]

EnvStr(s) == [set |-> TRUE, val |-> s]

\* the strings the two variables are given in the model; every numeric one
\* is representable as an int
EnvStrings ==
  { <<"2","0">>, <<"8","0">>, <<"7","0">>, <<"9","0">>, <<"5","0">>,
    <<"0">>, <<"1","0","0">>, <<"1","0","1">>, <<"-","1">>, <<"+","3","0">>,
    <<"a","b","c">>, <<>>, <<"1","2","a","b","c">>, <<" ","7">>,
    <<"2","1","4","7","4","8","3","6","4","7">>,
    <<"-","2","1","4","7","4","8","3","6","4","8">> }

EnvValues == {NULL} \cup {EnvStr(s) : s \in EnvStrings}

----------------------------------------------------------------------------
(* The parameter tree.  A ran_param_struct_t is a record of its size field *)
(* and its array, a ran_param_list_t likewise; the array is a sequence.    *)

\* cp_str_to_ba: a byte array holding a copy of the string
cp_str_to_ba(str) == [len |-> Len(str), buf |-> str]

\* an ELEMENT with key flag false holding an OCTET STRING
OctetStringElement(ba) ==
  [type |-> "ELEMENT_KEY_FLAG_FALSE",
   flag_false |-> [type |-> "OCTET_STRING", octet_str_ran |-> ba]]

\* an ELEMENT with key flag false holding an INTEGER
IntegerElement(v) ==
  [type |-> "ELEMENT_KEY_FLAG_FALSE",
   flag_false |-> [type |-> "INTEGER", int_ran |-> v]]

\* char plmnid_str[] = "00101"
plmnid_str == <<"0", "0", "1", "0", "1">>

\* PLMN Identity, ELEMENT (RRM Policy Member -> PLMN Identity)
PLMN_Identity ==
  [ran_param_id |-> PLMN_Identity_8_4_3_6,
   ran_param_val |-> OctetStringElement(cp_str_to_ba(plmnid_str))]

\* SST, ELEMENT (S-NSSAI -> SST)
SST(sst_str_i) ==
  [ran_param_id |-> SST_8_4_3_6,
   ran_param_val |-> OctetStringElement(cp_str_to_ba(sst_str_i))]

\* SD, ELEMENT (S-NSSAI -> SD)
SD(sd_str_i) ==
  [ran_param_id |-> SD_8_4_3_6,
   ran_param_val |-> OctetStringElement(cp_str_to_ba(sd_str_i))]

\* a slip in the layout of the S-NSSAI: SD written to slot 0, SST to slot 1
S_NSSAI_swapped(sst_str_i, sd_str_i) ==
  [ran_param_id |-> S_NSSAI_8_4_3_6,
   ran_param_val |->
     [type |-> "STRUCTURE",
      strct |-> [sz_ran_param_struct |-> 2,
                 ran_param_struct |-> <<SD(sd_str_i), SST(sst_str_i)>>]]]

\* S-NSSAI, STRUCTURE (RRM Policy Member -> S-NSSAI)
S_NSSAI(sst_str_i, sd_str_i) ==
  [ran_param_id |-> S_NSSAI_8_4_3_6,
   ran_param_val |->
     [type |-> "STRUCTURE",
      strct |-> [sz_ran_param_struct |-> 2,
                 ran_param_struct |-> <<SST(sst_str_i), SD(sd_str_i)>>]]]

\* RRM Policy Member, STRUCTURE (RRM Policy Member List -> RRM Policy Member);
\* a lst_ran_param_t, whose ran_param_id the code leaves unset
RRM_Policy_Member(sst_str_i, sd_str_i) ==
  [ran_param_struct |->
     [sz_ran_param_struct |-> 2,
      ran_param_struct |-> <<PLMN_Identity, S_NSSAI(sst_str_i, sd_str_i)>>]]

\* RRM Policy Member List, LIST (RRM Policy -> RRM Policy Member List)
RRM_Policy_Member_List(sst_str_i, sd_str_i) ==
  [ran_param_id |-> RRM_Policy_Member_List_8_4_3_6,
   ran_param_val |->
     [type |-> "LIST",
      lst |-> [sz_lst_ran_param |-> 1,
               lst_ran_param |-> <<RRM_Policy_Member(sst_str_i, sd_str_i)>>]]]

\* RRM Policy, STRUCTURE (RRM Policy Ratio Group -> RRM Policy)
RRM_Policy(sst_str_i, sd_str_i) ==
  [ran_param_id |-> RRM_Policy_8_4_3_6,
   ran_param_val |->
     [type |-> "STRUCTURE",
      strct |-> [sz_ran_param_struct |-> 1,
                 ran_param_struct |->
                   <<RRM_Policy_Member_List(sst_str_i, sd_str_i)>>]]]

Min_PRB_Policy_Ratio(min_ratio_prb) ==
  [ran_param_id |-> Min_PRB_Policy_Ratio_8_4_3_6,
   ran_param_val |-> IntegerElement(min_ratio_prb)]

Max_PRB_Policy_Ratio(max_ratio_prb) ==
  [ran_param_id |-> Max_PRB_Policy_Ratio_8_4_3_6,
   ran_param_val |-> IntegerElement(max_ratio_prb)]

Dedicated_PRB_Policy_Ratio(dedicated_ratio_prb_i) ==
  [ran_param_id |-> Dedicated_PRB_Policy_Ratio_8_4_3_6,
   ran_param_val |-> IntegerElement(dedicated_ratio_prb_i)]

\* what gen_rrm_policy_ratio_group leaves in *RRM_Policy_Ratio_Group when
\* every allocation succeeds
gen_rrm_policy_ratio_group(sst_str_i, sd_str_i, min_ratio_prb, dedicated_ratio_prb_i, max_ratio_prb) ==
  [ran_param_struct |->
     [sz_ran_param_struct |-> 4,
      ran_param_struct |->
        << RRM_Policy(sst_str_i, sd_str_i),
           Min_PRB_Policy_Ratio(min_ratio_prb),
           Max_PRB_Policy_Ratio(max_ratio_prb),
           Dedicated_PRB_Policy_Ratio(dedicated_ratio_prb_i) >>]]

\* the lines of gen_rrm_policy_ratio_group that call calloc, in order
GroupAllocLines ==
  <<98, 104, 107, 113, 116, 122, 128, 139, 142, 147, 158, 169, 178, 187>>

\* the line of the assert that checks the calloc of `line`, 0 when the result
\* is used unchecked (line 142: the next use is the store of line 145)
AssertLineOf(line) == IF line = 142 THEN 0 ELSE line + 1

\* a lst_ran_param_t as calloc leaves it: all zero
ZeroGroup ==
  [ran_param_struct |-> [sz_ran_param_struct |-> 0, ran_param_struct |-> <<>>]]

\* a seq_ran_param_t as calloc leaves it
ZeroSeqRanParam == [ran_param_id |-> 0, ran_param_val |-> [type |-> "zero"]]

\* e2sm_rc_ctrl_msg_frmt_1_t dst = {0}
ZeroMsgFrmt1 == [sz_ran_param |-> 0, ran_param |-> <<>>]

\* const char* sst_str[] = {"1", "1"}
sst_str == << <<"1">>, <<"1">> >>

\* const char* sd_str[] = {"1", "5"}
sd_str == << <<"1">>, <<"5">> >>

\* int dedicated_ratio_prb[] = {slice1_ratio, slice2_ratio}
dedicated_ratio_prb == <<slice1_ratio, slice2_ratio>>

\* gen_rc_ue_id(GNB_UE_ID_E2SM)
gen_rc_ue_id ==
  [type |-> "GNB_UE_ID_E2SM",
   gnb |-> [amf_ue_ngap_id |-> 0,
            guami |-> [plmn_id |-> [mcc |-> 1, mnc |-> 1, mnc_digit_len |-> 2],
                       amf_region_id |-> 0, amf_set_id |-> 0, amf_ptr |-> 0]]]

\* gen_rc_ctrl_hdr(FORMAT_1_E2SM_RC_CTRL_HDR, ue_id, ric_style_type, ctrl_act_id)
gen_rc_ctrl_hdr(ue_id, ric_style_type, ctrl_act_id) ==
  [format |-> "FORMAT_1_E2SM_RC_CTRL_HDR",
   frmt_1 |-> [ue_id |-> ue_id, ric_style_type |-> ric_style_type,
               ctrl_act_id |-> ctrl_act_id]]

\* rc_ctrl_req_data_t rc_ctrl = {0}
ZeroRcCtrl == [hdr |-> [format |-> "zero"], msg |-> [format |-> "zero"]]

\* the members of the RRM Policy Ratio List of a built message
GroupsOf(msg) == msg.frmt_1.ran_param[1].ran_param_val.lst.lst_ran_param

----------------------------------------------------------------------------
(* The run of main() *)

\* the node ids the session layer may report
NodeIds == 1 .. MaxNodes

\* the lists e2_nodes_xapp_api may return: up to MaxNodes nodes, each
\* connected node listed once
NodeLists ==
  UNION { { ns \in [1 .. n -> NodeIds] :
              \A a, b \in 1 .. n : a # b => ns[a] # ns[b] } : n \in 0 .. MaxNodes }

Init ==
  /\ pc = "e2_nodes"
  /\ env \in [SLICE1_RATIO : EnvValues, SLICE2_RATIO : EnvValues]
  /\ nodes = <<>>
  /\ rc_ctrl = ZeroRcCtrl
  /\ dst = ZeroMsgFrmt1
  /\ slice1_ratio = 0
  /\ slice2_ratio = 0
  /\ ratio_read = <<0, 0>>
  /\ slice_i = 0
  /\ node_i = 0
  /\ sent = <<>>
  /\ rc_state = "none"
  /\ n_free = 0
  /\ n_msg_calls = 0
  /\ alloc_failed = 0
  /\ exit_cause = "none"
  /\ exit_line = 0
  /\ stop_ans = "none"
  /\ n_usleep = 0

\* the process dies at `line`: a failed assert aborts it, a store through a
\* null pointer faults
Die(cause, line) ==
  /\ pc' = "exited"
  /\ exit_cause' = cause
  /\ exit_line' = line

Alive == UNCHANGED <<exit_cause, exit_line>>

\* an assertion that was compiled out or forgotten
NodesAssertMissing(ns) == TRUE

\* assert(nodes.len > 0)
NodesAssert(ns) == Len(ns) > 0

\* lines 320-323: e2_nodes_xapp_api() and the assert on its result
E2NodesXappApi ==
  /\ pc = "e2_nodes"
  /\ \E ns \in NodeLists :
       /\ nodes' = ns
       /\ IF NodesAssert(ns)
            THEN pc' = "gen_hdr" /\ Alive
            ELSE Die("assert", 322)
  /\ UNCHANGED <<env, rc_ctrl, dst, slice1_ratio, slice2_ratio, ratio_read,
                 slice_i, node_i, sent, rc_state, n_free, n_msg_calls,
                 alloc_failed, stop_ans, n_usleep>>

\* lines 334-337: rc_ctrl = {0}; ue_id; rc_ctrl.hdr
GenRcCtrlHdr ==
  /\ pc = "gen_hdr"
  /\ rc_ctrl' = [ZeroRcCtrl EXCEPT
                   !.hdr = gen_rc_ctrl_hdr(gen_rc_ue_id, 2,
                                           Slice_level_PRB_quotal_7_6_3_1)]
  /\ pc' = "gen_msg"
  /\ UNCHANGED <<env, nodes, dst, slice1_ratio, slice2_ratio, ratio_read,
                 slice_i, node_i, sent, rc_state, n_free, n_msg_calls,
                 alloc_failed, exit_cause, exit_line, stop_ans, n_usleep>>

\* line 338 calls gen_rc_ctrl_msg, which calls
\* gen_rc_ctrl_msg_frmt_1_slice_level_PRB_quota: lines 250-270
GenRcCtrlMsg ==
  /\ pc = "gen_msg"
  /\ n_msg_calls' = n_msg_calls + 1
  /\ \E ok \in BOOLEAN :
       IF ok
         THEN /\ dst' = [sz_ran_param |-> 1, ran_param |-> <<ZeroSeqRanParam>>]
              /\ pc' = "read_env"
              /\ Alive
              /\ UNCHANGED alloc_failed
         ELSE /\ alloc_failed' = 269
              /\ Die("assert", AssertLineOf(269))
              /\ UNCHANGED dst
  /\ UNCHANGED <<env, nodes, rc_ctrl, slice1_ratio, slice2_ratio, ratio_read,
                 slice_i, node_i, sent, rc_state, n_free, stop_ans, n_usleep>>

\* lines 200-211: the defaults, getenv, atoi
RatioFromEnv(default, v) == IF v.set THEN atoi(v.val) ELSE default

ReadRatios ==
  /\ pc = "read_env"
  /\ slice1_ratio' = RatioFromEnv(20, env.SLICE1_RATIO)
  /\ slice2_ratio' = RatioFromEnv(80, env.SLICE2_RATIO)
  /\ ratio_read' = <<slice1_ratio', slice2_ratio'>>
  /\ pc' = "validate"
  /\ UNCHANGED <<env, nodes, rc_ctrl, dst, slice_i, node_i, sent, rc_state,
                 n_free, n_msg_calls, alloc_failed, exit_cause, exit_line,
                 stop_ans, n_usleep>>

\* lines 213-218: the correction to 50:50, given what the test evaluated to
CorrectRatios(a, b, gt) == IF gt THEN <<50, 50>> ELSE <<a, b>>

ValidateRatios ==
  /\ pc = "validate"
  /\ \E gt \in SumGt100Outcomes(slice1_ratio, slice2_ratio) :
       /\ slice1_ratio' = CorrectRatios(slice1_ratio, slice2_ratio, gt)[1]
       /\ slice2_ratio' = CorrectRatios(slice1_ratio, slice2_ratio, gt)[2]
  /\ pc' = "alloc_list"
  /\ UNCHANGED <<env, nodes, rc_ctrl, dst, ratio_read, slice_i, node_i, sent,
                 rc_state, n_free, n_msg_calls, alloc_failed, exit_cause,
                 exit_line, stop_ans, n_usleep>>

\* the lines of gen_rrm_policy_ratio_list that call calloc
ListAllocLines == <<223, 226>>

\* lines 221-235: the RRM Policy Ratio List and its num_slice zeroed members
AllocRatioList ==
  /\ pc = "alloc_list"
  /\ \E f \in 0 .. Len(ListAllocLines) :
       IF f = 0
         THEN /\ dst' = [dst EXCEPT !.ran_param[1] =
                   [ran_param_id |-> RRM_Policy_Ratio_List_8_4_3_6,
                    ran_param_val |->
                      [type |-> "LIST",
                       lst |-> [sz_lst_ran_param |-> num_slice,
                                lst_ran_param |->
                                  [k \in 1 .. num_slice |-> ZeroGroup]]]]]
              /\ slice_i' = 0
              /\ pc' = "gen_group"
              /\ Alive
              /\ UNCHANGED alloc_failed
         ELSE /\ alloc_failed' = ListAllocLines[f]
              /\ Die("assert", AssertLineOf(ListAllocLines[f]))
              /\ UNCHANGED <<dst, slice_i>>
  /\ UNCHANGED <<env, nodes, rc_ctrl, slice1_ratio, slice2_ratio, ratio_read,
                 node_i, sent, rc_state, n_free, n_msg_calls, stop_ans, n_usleep>>

\* lines 237-242, one iteration: gen_rrm_policy_ratio_group on member i.
\* Any of its callocs may return NULL; the assert after it aborts the
\* process.  The calloc of line 142 has no assert: the array pointer is NULL
\* and the store SST->ran_param_id = ... of line 145 goes to address 0.
GenRrmPolicyRatioGroup ==
  /\ pc = "gen_group"
  /\ slice_i < num_slice
  /\ \E f \in 0 .. Len(GroupAllocLines) :
       IF f = 0
         THEN /\ dst' = [dst EXCEPT
                   !.ran_param[1].ran_param_val.lst.lst_ran_param[slice_i + 1] =
                     gen_rrm_policy_ratio_group(sst_str[slice_i + 1],
                                                sd_str[slice_i + 1], 0,
                                                dedicated_ratio_prb[slice_i + 1],
                                                0)]
              /\ slice_i' = slice_i + 1
              /\ pc' = "gen_group"
              /\ Alive
              /\ UNCHANGED alloc_failed
         ELSE /\ alloc_failed' = GroupAllocLines[f]
              /\ IF AssertLineOf(GroupAllocLines[f]) # 0
                   THEN Die("assert", AssertLineOf(GroupAllocLines[f]))
                   ELSE Die("segv", 145)
              /\ UNCHANGED <<dst, slice_i>>
  /\ UNCHANGED <<env, nodes, rc_ctrl, slice1_ratio, slice2_ratio, ratio_read,
                 node_i, sent, rc_state, n_free, n_msg_calls, stop_ans, n_usleep>>

\* the loop of line 237 ends; the builders return and line 338 stores the
\* message in rc_ctrl.msg
GenRcCtrlMsgReturn ==
  /\ pc = "gen_group"
  /\ ~(slice_i < num_slice)
  /\ rc_ctrl' = [rc_ctrl EXCEPT
                   !.msg = [format |-> "FORMAT_1_E2SM_RC_CTRL_MSG",
                            frmt_1 |-> dst]]
  /\ rc_state' = "live"
  /\ node_i' = 0
  /\ pc' = "send"
  /\ UNCHANGED <<env, nodes, dst, slice1_ratio, slice2_ratio, ratio_read,
                 slice_i, sent, n_free, n_msg_calls, alloc_failed, exit_cause,
                 exit_line, stop_ans, n_usleep>>

\* a slip in the argument of the send: always the first node's id
NodeArgFirst(i) == nodes[1]

\* &nodes.n[i].id
NodeArg(i) == nodes[i + 1]

\* lines 341-343, one iteration: control_sm_xapp_api(&nodes.n[i].id, SM_RC_ID,
\* &rc_ctrl).  Its answer is not looked at.
ControlSmXappApi ==
  /\ pc = "send"
  /\ node_i < Len(nodes)
  /\ \E ans \in {"ok", "err"} :
       sent' = Append(sent, [id |-> NodeArg(node_i), ran_func_id |-> SM_RC_ID,
                             wr |-> rc_ctrl, wr_state |-> rc_state,
                             ans |-> ans])
  /\ node_i' = node_i + 1
  /\ UNCHANGED <<pc, env, nodes, rc_ctrl, dst, slice1_ratio, slice2_ratio,
                 ratio_read, slice_i, rc_state, n_free, n_msg_calls,
                 alloc_failed, exit_cause, exit_line, stop_ans, n_usleep>>

\* the loop of line 341 ends (line 344 prints the latency)
SendLoopExit ==
  /\ pc = "send"
  /\ ~(node_i < Len(nodes))
  /\ pc' = "free"
  /\ UNCHANGED <<env, nodes, rc_ctrl, dst, slice1_ratio, slice2_ratio,
                 ratio_read, slice_i, node_i, sent, rc_state, n_free,
                 n_msg_calls, alloc_failed, exit_cause, exit_line, stop_ans,
                 n_usleep>>

\* a slip in the release: the request is freed only when the last send
\* answered ok
FreeRcCtrlReqDataIfSent ==
  /\ pc = "free"
  /\ IF sent[Len(sent)].ans = "ok"
       THEN rc_state' = "freed" /\ n_free' = n_free + 1
       ELSE UNCHANGED <<rc_state, n_free>>
  /\ pc' = "try_stop"
  /\ UNCHANGED <<env, nodes, rc_ctrl, dst, slice1_ratio, slice2_ratio,
                 ratio_read, slice_i, node_i, sent, n_msg_calls, alloc_failed,
                 exit_cause, exit_line, stop_ans, n_usleep>>

\* lines 345-351: free_rc_ctrl_req_data(&rc_ctrl); sleep(5)
FreeRcCtrlReqData ==
  /\ pc = "free"
  /\ rc_state' = "freed"
  /\ n_free' = n_free + 1
  /\ pc' = "try_stop"
  /\ UNCHANGED <<env, nodes, rc_ctrl, dst, slice1_ratio, slice2_ratio,
                 ratio_read, slice_i, node_i, sent, n_msg_calls, alloc_failed,
                 exit_cause, exit_line, stop_ans, n_usleep>>

\* a slip in the loop test: try_stop_xapp_api() == true
StopLoopContinuesInverted(ans) == ans = TRUE

\* the test of line 355: try_stop_xapp_api() == false
StopLoopContinues(ans) == ans = FALSE

\* line 355: one call of try_stop_xapp_api and the test of its answer
TryStopXappApi ==
  /\ pc = "try_stop"
  /\ \E ans \in BOOLEAN :
       /\ stop_ans' = IF ans THEN "true" ELSE "false"
       /\ pc' = IF StopLoopContinues(ans) THEN "usleep" ELSE "done"
  /\ UNCHANGED <<env, nodes, rc_ctrl, dst, slice1_ratio, slice2_ratio,
                 ratio_read, slice_i, node_i, sent, rc_state, n_free,
                 n_msg_calls, alloc_failed, exit_cause, exit_line, n_usleep>>

\* line 356: usleep(1000), then back to the test
Usleep ==
  /\ pc = "usleep"
  /\ n_usleep' = IF n_usleep < MaxStopAttempts THEN n_usleep + 1 ELSE n_usleep
  /\ pc' = "try_stop"
  /\ UNCHANGED <<env, nodes, rc_ctrl, dst, slice1_ratio, slice2_ratio,
                 ratio_read, slice_i, node_i, sent, rc_state, n_free,
                 n_msg_calls, alloc_failed, exit_cause, exit_line, stop_ans>>

Next ==
  \/ E2NodesXappApi
  \/ GenRcCtrlHdr
  \/ GenRcCtrlMsg
  \/ ReadRatios
  \/ ValidateRatios
  \/ AllocRatioList
  \/ GenRrmPolicyRatioGroup
  \/ GenRcCtrlMsgReturn
  \/ ControlSmXappApi
  \/ SendLoopExit
  \/ FreeRcCtrlReqData
  \/ TryStopXappApi
  \/ Usleep

Spec == Init /\ [][Next]_vars

\* main() is one thread that runs until it returns or dies: a statement that
\* can run does run
FairSpec == Init /\ [][Next]_vars /\ WF_vars(Next)

----------------------------------------------------------------------------
(* Reading a built request *)

\* the builder has returned: rc_ctrl.msg holds the tree
Built == rc_state # "none"

\* the dedicated-ratio integer of a Policy Ratio Group
DedicatedOf(g) == g.ran_param_struct.ran_param_struct[4].ran_param_val.flag_false.int_ran

\* the identifiers of a sequence of seq_ran_param_t, in order
IdsOf(seq) == [k \in 1 .. Len(seq) |-> seq[k].ran_param_id]

\* a ran_param_struct_t has exactly the children `ids`, in that order
HasChildren(strct, ids) ==
  /\ strct.sz_ran_param_struct = Len(ids)
  /\ IdsOf(strct.ran_param_struct) = ids

\* the Policy Members of a Policy Ratio Group
MembersOf(g) ==
  g.ran_param_struct.ran_param_struct[1].ran_param_val.strct
   .ran_param_struct[1].ran_param_val.lst.lst_ran_param

\* the string has a number where atoi looks for one
HasNumber(s) ==
  LET i0 == SkipSpace(s, 1)
      i1 == IF i0 <= Len(s) /\ s[i0] \in {"+", "-"} THEN i0 + 1 ELSE i0
  IN i1 <= Len(s) /\ s[i1] \in Digits

\* the ratios have been read from the environment
RatiosRead ==
  pc \in {"validate", "alloc_list", "gen_group", "send", "free", "try_stop",
          "usleep", "done"}

\* main() is past the release of the request
PastFree == pc \in {"try_stop", "usleep", "done"}

----------------------------------------------------------------------------
(* The claims *)

\* C1: for all integer pairs (slice1Ratio, slice2Ratio) read from
\* SLICE1_RATIO and SLICE2_RATIO whose sum is at most 100, the built tree has
\* exactly 2 Policy Ratio Group members, the dedicated ratio of member 0 is
\* slice1Ratio and that of member 1 is slice2Ratio.
C1_SumAtMost100KeepsRatios ==
  (Built /\ ~ExactSumGt100(ratio_read[1], ratio_read[2])) =>
    /\ Len(GroupsOf(rc_ctrl.msg)) = 2
    /\ DedicatedOf(GroupsOf(rc_ctrl.msg)[1]) = ratio_read[1]
    /\ DedicatedOf(GroupsOf(rc_ctrl.msg)[2]) = ratio_read[2]

\* C2: for all integer pairs whose sum is greater than 100 the built tree
\* carries dedicated ratios (50, 50); the correction applied to (50, 50)
\* leaves it unchanged.
C2_SumAbove100Gives5050 ==
  /\ (Built /\ ExactSumGt100(ratio_read[1], ratio_read[2])) =>
       /\ DedicatedOf(GroupsOf(rc_ctrl.msg)[1]) = 50
       /\ DedicatedOf(GroupsOf(rc_ctrl.msg)[2]) = 50
  /\ \A gt \in SumGt100Outcomes(50, 50) : CorrectRatios(50, 50, gt) = <<50, 50>>

\* C3: for each of the two overrides independently, when the variable is
\* absent or holds no parsable integer, the ratio before validation is that
\* slice's default (20 for SLICE1_RATIO, 80 for SLICE2_RATIO).
C3_UnparsableFallsBackToDefault ==
  RatiosRead =>
    /\ (~env.SLICE1_RATIO.set \/ ~HasNumber(env.SLICE1_RATIO.val))
         => ratio_read[1] = 20
    /\ (~env.SLICE2_RATIO.set \/ ~HasNumber(env.SLICE2_RATIO.val))
         => ratio_read[2] = 80

\* C4: when node discovery returns an empty list the run aborts:
\* gen_rc_ctrl_msg is never called and nothing is ever sent.
C4_NoNodesAborts ==
  (pc # "e2_nodes" /\ nodes = <<>>) =>
    /\ pc = "exited"
    /\ exit_cause = "assert"
    /\ exit_line = 322
    /\ n_msg_calls = 0
    /\ sent = <<>>
    /\ ~Built

C4_Witness == pc = "exited" /\ nodes = <<>> /\ exit_line = 322

\* C5: with N >= 1 discovered nodes the fan-out performs exactly N sends, the
\* k-th to the k-th node of the list with that node's own id, and the body is
\* the same tree, as built, in all of them.
C5_OneSendPerNode ==
  /\ Len(sent) <= Len(nodes)
  /\ pc = "send" => Len(sent) = node_i
  /\ \A k \in 1 .. Len(sent) :
       /\ sent[k].id = nodes[k]
       /\ sent[k].ran_func_id = SM_RC_ID
       /\ sent[k].wr = sent[1].wr
       /\ sent[k].wr = rc_ctrl
       /\ sent[k].wr.msg.frmt_1 = dst
  /\ (pc = "free" \/ PastFree) => (Len(nodes) >= 1 /\ Len(sent) = Len(nodes))

C5_Witness ==
  pc = "free" /\ Len(nodes) >= 2 /\ Len(sent) = Len(nodes)
  /\ sent[1].id # sent[2].id

\* C6: once the fan-out has started the request is released exactly once,
\* after the last send and whatever the sends answered, and no send uses the
\* request after its release.
C6_ReleasedOnceAfterFanOut ==
  /\ n_free <= 1
  /\ (rc_state = "freed") <=> (n_free = 1)
  /\ (pc = "send" \/ pc = "free") => n_free = 0
  /\ PastFree => (n_free = 1 /\ Len(sent) = Len(nodes))
  /\ \A k \in 1 .. Len(sent) : sent[k].wr_state = "live"

C6_Witness ==
  PastFree /\ n_free = 1 /\ Len(sent) >= 2
  /\ sent[Len(sent)].ans = "err"

\* C7: in every tree the builder returns, for every configuration, each
\* Policy Ratio Group has exactly the 4 children Policy, MinRatio, MaxRatio,
\* DedicatedRatio in that order, each Policy Member exactly the 2 children
\* PLMNIdentity, S-NSSAI, and each S-NSSAI exactly the 2 children SST, SD.
C7_TreeShape ==
  Built =>
    \A g \in 1 .. Len(GroupsOf(rc_ctrl.msg)) :
      /\ HasChildren(GroupsOf(rc_ctrl.msg)[g].ran_param_struct,
                     << RRM_Policy_8_4_3_6, Min_PRB_Policy_Ratio_8_4_3_6,
                        Max_PRB_Policy_Ratio_8_4_3_6,
                        Dedicated_PRB_Policy_Ratio_8_4_3_6 >>)
      /\ \A m \in 1 .. Len(MembersOf(GroupsOf(rc_ctrl.msg)[g])) :
           LET member == MembersOf(GroupsOf(rc_ctrl.msg)[g])[m].ran_param_struct
           IN /\ HasChildren(member, <<PLMN_Identity_8_4_3_6, S_NSSAI_8_4_3_6>>)
              /\ HasChildren(member.ran_param_struct[2].ran_param_val.strct,
                             <<SST_8_4_3_6, SD_8_4_3_6>>)

C7_Witness ==
  /\ Built
  /\ Len(GroupsOf(rc_ctrl.msg)) = num_slice
  /\ Len(MembersOf(GroupsOf(rc_ctrl.msg)[2])) = 1
  /\ env.SLICE1_RATIO.set
  /\ ~env.SLICE2_RATIO.set

\* C8: if a calloc of the build returns NULL, the run stops at that point
\* with the "Memory exhausted" assert, and no control request is sent.
C8_AllocFailureAsserts ==
  alloc_failed # 0 =>
    /\ pc = "exited"
    /\ exit_cause = "assert"
    /\ exit_line = alloc_failed + 1
    /\ sent = <<>>

\* C9 (as claimed): stop is called only after the release and Stopped is
\* reached only on a call that reports success, and the polling loop ends
\* after a bounded number of attempts, so that the run terminates.
C9_StopLoopTerminates ==
  /\ [](pc = "done" => stop_ans = "true")
  /\ (pc = "try_stop") ~> (pc = "done")

\* C9 (as amended): after the request is released the driver calls
\* try_stop_xapp_api repeatedly, sleeping after each call that reports
\* failure, and reaches Stopped only on a call that reports success; the loop
\* has no bound on the number of attempts.
C9_StoppedOnlyOnSuccess ==
  /\ pc = "done" <=> stop_ans = "true"
  /\ pc = "usleep" => stop_ans = "false"
  /\ stop_ans # "none" => n_free = 1
  /\ n_usleep > 0 => stop_ans # "none"

C9_Witness == pc = "done" /\ n_usleep >= 1 /\ n_free = 1

\* C10: for every pair of override values representable as signed 32-bit
\* integers, the two dedicated ratios of every request dispatched to a node
\* sum to at most 100.
C10_DispatchedRatiosSumAtMost100 ==
  \A k \in 1 .. Len(sent) :
    ~ExactSumGt100(DedicatedOf(GroupsOf(sent[k].wr.msg)[1]),
                   DedicatedOf(GroupsOf(sent[k].wr.msg)[2]))

====
